---- MODULE Spec2Model ----
(***************************************************************************)
(* Model of the remittance hub of remittance_integration.go: the provider  *)
(* registry, the eligibility filter, the quote aggregation loop with its   *)
(* trailing sort, best-quote selection and the routing of SendMoney to a   *)
(* named provider.                                                         *)
(*                                                                         *)
(* Money is counted in cents and exchange rates in hundredths, so that the *)
(* float64 values of the source (5.99, 1.15, ...) are exact integers here. *)
(* time.Time fields (ValidUntil) are left out of the records.              *)
(***************************************************************************)
EXTENDS Integers, Sequences, FiniteSets, TLC

\* The registry holds at most this many adapters.
MaxProviders == 3

----------------------------------------------------------------------------
\* Request inputs

\* (FromCurrency, ToCurrency) pairs of the requests: a pair every adapter
\* supports, one only Remitly supports, one Wise and WorldRemit support, and
\* one no adapter supports.
CurrencyPairs == {<<"USD", "PHP">>, <<"JPY", "MXN">>, <<"GBP", "JPY">>, <<"JPY", "JPY">>}

\* (fromCountry, toCountry) pairs handed to GetAvailableProviders directly.
CountryPairs == {<<"US", "PH">>, <<"ZZ", "KE">>, <<"MX", "ZZ">>, <<"ZZ", "ZZ">>}

\* Amounts in cents: 100.00 and 1000.00.
Amounts == {10000, 100000}

\* TransactionRequest, restricted to the fields the hub and the adapters read.
\* The recipient lives where the target currency is used.
Requests ==
    { [Amount |-> a, FromCurrency |-> cp[1], ToCurrency |-> cp[2],
       CountryCode |-> IF cp[2] = "PHP" THEN "PH"
                       ELSE IF cp[2] = "MXN" THEN "MX" ELSE "ZZ",
       Reference |-> "REF-001"] :
        a \in Amounts, cp \in CurrencyPairs }

----------------------------------------------------------------------------
\* Provider adapters

Kinds == {"Wise", "Remitly", "WorldRemit"}

GetName(p) ==
    CASE p.kind = "Wise" -> "Wise"
      [] p.kind = "Remitly" -> "Remitly"
      [] p.kind = "WorldRemit" -> "WorldRemit"

GetSupportedCurrencies(p) ==
    CASE p.kind = "Wise" -> <<"USD", "EUR", "GBP", "INR", "PHP">>
      [] p.kind = "Remitly" -> <<"USD", "EUR", "PHP", "INR", "MXN">>
      [] p.kind = "WorldRemit" -> <<"USD", "EUR", "GBP", "INR", "PHP">>

GetSupportedCountries(p) ==
    CASE p.kind = "Wise" -> <<"US", "GB", "IN", "PH", "DE", "FR", "ES">>
      [] p.kind = "Remitly" -> <<"US", "PH", "IN", "MX", "GB">>
      [] p.kind = "WorldRemit" -> <<"US", "GB", "IN", "PH", "KE", "GH">>

----------------------------------------------------------------------------
\* Eligibility filter

\* The inner loops of GetAvailableProviders: scan the list, stop at the first
\* entry equal to either of the two values.
RECURSIVE ScanEither(_, _, _)
ScanEither(list, a, b) ==
    IF list = <<>> THEN FALSE
    ELSE IF Head(list) = a \/ Head(list) = b THEN TRUE
    ELSE ScanEither(Tail(list), a, b)

SupportsCurrenciesBoth(p, fromCurrency, toCurrency) ==
    /\ ScanEither(GetSupportedCurrencies(p), fromCurrency, fromCurrency)
    /\ ScanEither(GetSupportedCurrencies(p), toCurrency, toCurrency)

SupportsCurrencies(p, fromCurrency, toCurrency) ==
    ScanEither(GetSupportedCurrencies(p), fromCurrency, toCurrency)

SupportsCountries(p, fromCountry, toCountry) ==
    ScanEither(GetSupportedCountries(p), fromCountry, toCountry)

RECURSIVE GetAvailableProviders(_, _, _, _, _)
GetAvailableProviders(provs, fromCountry, toCountry, fromCurrency, toCurrency) ==
    IF provs = <<>> THEN <<>>
    ELSE LET provider == Head(provs)
             rest == GetAvailableProviders(Tail(provs), fromCountry, toCountry,
                                           fromCurrency, toCurrency)
         IN IF /\ SupportsCurrencies(provider, fromCurrency, toCurrency)
               /\ SupportsCountries(provider, fromCountry, toCountry)
            THEN <<provider>> \o rest
            ELSE rest

----------------------------------------------------------------------------
\* Errors and results

\* An error value is its message; NilErr is the nil error.
NilErr == "<nil>"
ErrNoQuotes == "no quotes available"
ErrProviderNotFound(providerName) == "provider " \o providerName \o " not found"
ErrTransport == "transport error"
ErrContext == "context canceled"
ErrDecode == "invalid JSON"

\* Errors an adapter hands back from its HTTP round trip and its decoding.
AdapterErrors == {ErrTransport, ErrContext, ErrDecode}

\* A nil *RemittanceQuote.
NoQuote == [nil |-> TRUE]

\* A nil *TransactionResponse.
NoResponse == [nil |-> TRUE]

Ok(q) == [tag |-> "ok", quote |-> q, err |-> NilErr]
Err(e) == [tag |-> "err", quote |-> NoQuote, err |-> e]
\* An unrecovered run-time panic: the call never returns.
Panic == [tag |-> "panic", quote |-> NoQuote, err |-> NilErr]

----------------------------------------------------------------------------
\* Adapters' GetQuote

\* Fee 5.99 and rate 1.18 of WorldRemit; fee 2% and rate 1.15 of Remitly.
WorldRemitFee == 599
WorldRemitRate == 118
RemitlyFeePercent == 2
RemitlyRate == 115

\* What the Wise API may answer to POST /v1/quotes. A field of the decoded
\* JSON object is <<v>> when it holds the number v and <<>> when it is absent
\* or not a number.
WiseFees == {599, 1500}
WiseQuoteReplies ==
    { [transport |-> "ok", decodes |-> TRUE, fee |-> <<f>>, rate |-> <<120>>,
       targetAmount |-> <<120000>>, id |-> <<>>] : f \in WiseFees }
    \cup { [transport |-> "ok", decodes |-> TRUE, fee |-> <<>>, rate |-> <<>>,
            targetAmount |-> <<>>, id |-> <<>>],
           [transport |-> "ok", decodes |-> TRUE, fee |-> <<>>, rate |-> <<120>>,
            targetAmount |-> <<120000>>, id |-> <<>>],
           [transport |-> "ok", decodes |-> TRUE, fee |-> <<1500>>, rate |-> <<>>,
            targetAmount |-> <<120000>>, id |-> <<>>],
           [transport |-> "ok", decodes |-> TRUE, fee |-> <<1500>>, rate |-> <<120>>,
            targetAmount |-> <<>>, id |-> <<>>],
           [transport |-> "ok", decodes |-> FALSE, fee |-> <<>>, rate |-> <<>>,
            targetAmount |-> <<>>, id |-> <<>>],
           [transport |-> "error", decodes |-> FALSE, fee |-> <<>>, rate |-> <<>>,
            targetAmount |-> <<>>, id |-> <<>>] }

\* The replies the other two adapters need: they make no request.
NoReply == [transport |-> "none", decodes |-> FALSE, fee |-> <<>>, rate |-> <<>>,
            targetAmount |-> <<>>, id |-> <<>>]

Replies(p) == IF p.kind = "Wise" THEN WiseQuoteReplies ELSE {NoReply}

\* makeRequest: client.Do fails when the context is cancelled or the
\* transport fails.
MakeRequest(cancelled, reply) ==
    IF cancelled THEN Err(ErrContext)
    ELSE IF reply.transport = "error" THEN Err(ErrTransport)
    ELSE Ok(NoQuote)

\* x.(float64) on a field of the decoded object panics when the field is
\* absent or no number.
AssertFloat64(field) == Len(field) = 1

WiseGetQuote(p, req, cancelled, reply) ==
    IF MakeRequest(cancelled, reply).tag = "err" THEN MakeRequest(cancelled, reply)
    ELSE IF ~reply.decodes THEN Err(ErrDecode)
    ELSE IF ~AssertFloat64(reply.fee) THEN Panic
    ELSE IF ~AssertFloat64(reply.rate) THEN Panic
    ELSE IF ~AssertFloat64(reply.targetAmount) THEN Panic
    ELSE Ok([Provider |-> GetName(p),
             Amount |-> req.Amount,
             Fee |-> reply.fee[1],
             ExchangeRate |-> reply.rate[1],
             TotalCost |-> req.Amount + reply.fee[1],
             ReceivedAmount |-> reply.targetAmount[1],
             EstimatedTime |-> "1-2 business days",
             src |-> p.id])

RemitlyGetQuote(p, req) ==
    LET fee == (req.Amount * RemitlyFeePercent) \div 100
    IN Ok([Provider |-> GetName(p),
           Amount |-> req.Amount,
           Fee |-> fee,
           ExchangeRate |-> RemitlyRate,
           TotalCost |-> req.Amount + fee,
           ReceivedAmount |-> (req.Amount * RemitlyRate) \div 100,
           EstimatedTime |-> "Minutes to hours",
           src |-> p.id])

\* The fixed fee taken for a percentage of the amount.
WorldRemitGetQuotePercent(p, req) ==
    LET fee == (req.Amount * WorldRemitFee) \div 10000
    IN Ok([Provider |-> GetName(p),
           Amount |-> req.Amount,
           Fee |-> fee,
           ExchangeRate |-> WorldRemitRate,
           TotalCost |-> req.Amount + fee,
           ReceivedAmount |-> (req.Amount * WorldRemitRate) \div 100,
           EstimatedTime |-> "Minutes",
           src |-> p.id])

WorldRemitGetQuote(p, req) ==
    Ok([Provider |-> GetName(p),
        Amount |-> req.Amount,
        Fee |-> WorldRemitFee,
        ExchangeRate |-> WorldRemitRate,
        TotalCost |-> req.Amount + WorldRemitFee,
        ReceivedAmount |-> (req.Amount * WorldRemitRate) \div 100,
        EstimatedTime |-> "Minutes",
        src |-> p.id])

\* provider.GetQuote(ctx, req): interface dispatch. The field src of a quote
\* names the adapter instance that allocated it (the identity of the pointer).
GetQuote(p, req, cancelled, reply) ==
    CASE p.kind = "Wise" -> WiseGetQuote(p, req, cancelled, reply)
      [] p.kind = "Remitly" -> RemitlyGetQuote(p, req)
      [] p.kind = "WorldRemit" -> WorldRemitGetQuote(p, req)

----------------------------------------------------------------------------
\* Adapters' SendMoney

\* Fee 10.0 and rate 1.2 that WiseProvider.SendMoney fills in.
WiseSendFee == 1000
WiseSendRate == 120

\* What the Wise API may answer to POST /v1/transfers.
WiseTransferReplies ==
    { [transport |-> "ok", decodes |-> TRUE, fee |-> <<>>, rate |-> <<>>,
       targetAmount |-> <<>>, id |-> <<"wise-tx-1">>],
      [transport |-> "ok", decodes |-> TRUE, fee |-> <<>>, rate |-> <<>>,
       targetAmount |-> <<>>, id |-> <<>>],
      [transport |-> "ok", decodes |-> FALSE, fee |-> <<>>, rate |-> <<>>,
       targetAmount |-> <<>>, id |-> <<>>],
      [transport |-> "error", decodes |-> FALSE, fee |-> <<>>, rate |-> <<>>,
       targetAmount |-> <<>>, id |-> <<>>] }

\* time.Now().Unix(), printed with %d.
Times == {"1700000000", "1700000001"}

RespOk(resp) == [tag |-> "ok", resp |-> resp, err |-> NilErr]
RespErr(e) == [tag |-> "err", resp |-> NoResponse, err |-> e]
RespPanic == [tag |-> "panic", resp |-> NoResponse, err |-> NilErr]

\* x.(string) on a field of the decoded object.
AssertString(field) == Len(field) = 1

WiseSendMoney(p, req, cancelled, reply) ==
    IF MakeRequest(cancelled, reply).tag = "err"
    THEN RespErr(MakeRequest(cancelled, reply).err)
    ELSE IF ~reply.decodes THEN RespErr(ErrDecode)
    ELSE IF ~AssertString(reply.id) THEN RespPanic
    ELSE RespOk([TransactionID |-> reply.id[1],
                 Status |-> "PENDING",
                 Amount |-> req.Amount,
                 Fee |-> WiseSendFee,
                 ExchangeRate |-> WiseSendRate,
                 EstimatedTime |-> "1-2 business days",
                 TrackingURL |-> "https://wise.com/track/" \o reply.id[1]])

RemitlySendMoney(p, req, now) ==
    LET transactionID == "REM_" \o now
    IN RespOk([TransactionID |-> transactionID,
               Status |-> "PENDING",
               Amount |-> req.Amount,
               Fee |-> (req.Amount * RemitlyFeePercent) \div 100,
               ExchangeRate |-> RemitlyRate,
               EstimatedTime |-> "Minutes to hours",
               TrackingURL |-> "https://remitly.com/track/" \o transactionID])

WorldRemitSendMoney(p, req, now) ==
    LET transactionID == "WR_" \o now
    IN RespOk([TransactionID |-> transactionID,
               Status |-> "PENDING",
               Amount |-> req.Amount,
               Fee |-> WorldRemitFee,
               ExchangeRate |-> WorldRemitRate,
               EstimatedTime |-> "Minutes",
               TrackingURL |-> "https://worldremit.com/track/" \o transactionID])

\* provider.SendMoney(ctx, req): interface dispatch.
SendMoney(p, req, cancelled, reply, now) ==
    CASE p.kind = "Wise" -> WiseSendMoney(p, req, cancelled, reply)
      [] p.kind = "Remitly" -> RemitlySendMoney(p, req, now)
      [] p.kind = "WorldRemit" -> WorldRemitSendMoney(p, req, now)

\* One SendMoney call of an adapter: who was called, with what, and what came
\* back.
Invocation(p, req, cancelled, reply, now) ==
    [id |-> p.id, req |-> req, r |-> SendMoney(p, req, cancelled, reply, now)]

\* SendMoneyWithProvider: the SendMoney calls it makes, in order, and what it
\* returns.
RECURSIVE TryOthers(_, _, _, _, _, _)
TryOthers(provs, skip, req, cancelled, reply, now) ==
    IF provs = <<>> THEN <<>>
    ELSE IF Head(provs).id = skip
    THEN TryOthers(Tail(provs), skip, req, cancelled, reply, now)
    ELSE LET first == Invocation(Head(provs), req, cancelled, reply, now)
         IN IF first.r.tag = "ok" THEN <<first>>
            ELSE <<first>> \o TryOthers(Tail(provs), skip, req, cancelled, reply, now)

RECURSIVE Named(_, _)
Named(provs, providerName) ==
    IF provs = <<>> THEN <<>>
    ELSE IF GetName(Head(provs)) = providerName THEN <<Head(provs)>>
    ELSE Named(Tail(provs), providerName)

SendMoneyWithProviderFallback(provs, providerName, req, cancelled, reply, now) ==
    IF Named(provs, providerName) = <<>>
    THEN [invoked |-> <<>>, r |-> RespErr(ErrProviderNotFound(providerName))]
    ELSE LET first == Invocation(Named(provs, providerName)[1], req, cancelled,
                                 reply, now)
             others == TryOthers(provs, first.id, req, cancelled, reply, now)
         IN IF first.r.tag # "err" \/ others = <<>>
            THEN [invoked |-> <<first>>, r |-> first.r]
            ELSE [invoked |-> <<first>> \o others, r |-> others[Len(others)].r]

RECURSIVE SendMoneyWithProviderDefault(_, _, _, _, _, _)
SendMoneyWithProviderDefault(provs, providerName, req, cancelled, reply, now) ==
    IF provs = <<>>
    THEN [invoked |-> <<>>, r |-> RespErr(ErrProviderNotFound(providerName))]
    ELSE IF GetName(Head(provs)) = providerName \/ Len(provs) = 1
    THEN LET first == Invocation(Head(provs), req, cancelled, reply, now)
         IN [invoked |-> <<first>>, r |-> first.r]
    ELSE SendMoneyWithProviderDefault(Tail(provs), providerName, req, cancelled,
                                      reply, now)

RECURSIVE SendMoneyWithProvider(_, _, _, _, _, _)
SendMoneyWithProvider(provs, providerName, req, cancelled, reply, now) ==
    IF provs = <<>>
    THEN [invoked |-> <<>>, r |-> RespErr(ErrProviderNotFound(providerName))]
    ELSE IF GetName(Head(provs)) = providerName
    THEN LET first == Invocation(Head(provs), req, cancelled, reply, now)
         IN [invoked |-> <<first>>, r |-> first.r]
    ELSE SendMoneyWithProvider(Tail(provs), providerName, req, cancelled, reply, now)

----------------------------------------------------------------------------
\* Adapters' GetTransactionStatus

\* The four values of TransactionStatus.
Statuses == {"PENDING", "COMPLETED", "FAILED", "CANCELLED"}

\* What the Wise API may answer to GET /v1/transfers/<id>. The field status
\* is <<v>> when the decoded object holds the string v there and <<>> when it
\* is absent or no string.
WiseStatusReplies ==
    { [transport |-> "ok", decodes |-> TRUE, status |-> <<st>>] :
        st \in {"outgoing_payment_sent", "processing", "cancelled"} }
    \cup { [transport |-> "ok", decodes |-> TRUE, status |-> <<>>],
           [transport |-> "ok", decodes |-> FALSE, status |-> <<>>],
           [transport |-> "error", decodes |-> FALSE, status |-> <<>>] }

NoStatusReply == [transport |-> "none", decodes |-> FALSE, status |-> <<>>]

\* A TransactionResponse with only id, status and tracking URL set.
StatusResponse(transactionID, st, site) ==
    [TransactionID |-> transactionID,
     Status |-> st,
     Amount |-> 0,
     Fee |-> 0,
     ExchangeRate |-> 0,
     EstimatedTime |-> "",
     TrackingURL |-> site \o transactionID]

\* The status string of the Wise API handed on as it came.
WiseGetTransactionStatusRaw(transactionID, cancelled, reply) ==
    IF MakeRequest(cancelled, reply).tag = "err"
    THEN RespErr(MakeRequest(cancelled, reply).err)
    ELSE IF ~reply.decodes THEN RespErr(ErrDecode)
    ELSE IF ~AssertString(reply.status) THEN RespPanic
    ELSE RespOk(StatusResponse(transactionID, reply.status[1],
                               "https://wise.com/track/"))

WiseGetTransactionStatus(transactionID, cancelled, reply) ==
    IF MakeRequest(cancelled, reply).tag = "err"
    THEN RespErr(MakeRequest(cancelled, reply).err)
    ELSE IF ~reply.decodes THEN RespErr(ErrDecode)
    ELSE IF ~AssertString(reply.status) THEN RespPanic
    ELSE RespOk(StatusResponse(transactionID,
                               IF reply.status[1] = "outgoing_payment_sent"
                               THEN "COMPLETED" ELSE "PENDING",
                               "https://wise.com/track/"))

RemitlyGetTransactionStatus(transactionID) ==
    RespOk(StatusResponse(transactionID, "COMPLETED", "https://remitly.com/track/"))

WorldRemitGetTransactionStatus(transactionID) ==
    RespOk(StatusResponse(transactionID, "COMPLETED", "https://worldremit.com/track/"))

\* provider.GetTransactionStatus(ctx, transactionID): interface dispatch.
GetTransactionStatus(p, transactionID, cancelled, reply) ==
    CASE p.kind = "Wise" -> WiseGetTransactionStatus(transactionID, cancelled, reply)
      [] p.kind = "Remitly" -> RemitlyGetTransactionStatus(transactionID)
      [] p.kind = "WorldRemit" -> WorldRemitGetTransactionStatus(transactionID)

----------------------------------------------------------------------------
\* Aggregation

\* The less function handed to sort.Slice.
LessDescending(a, b) == a.TotalCost > b.TotalCost

Less(a, b) == a.TotalCost < b.TotalCost

Bijections(n) ==
    { f \in [1..n -> 1..n] : \A i, j \in 1..n : f[i] = f[j] => i = j }

Rearrangements(s) ==
    { [i \in 1..Len(s) |-> s[f[i]]] : f \in Bijections(Len(s)) }

IsOrdered(s) == \A i \in 1..(Len(s) - 1) : ~Less(s[i + 1], s[i])

\* sort.Slice(quotes, less): the slice is rearranged so that no element is
\* less than its predecessor. sort.Slice is documented as not stable, so
\* every ordered rearrangement is a possible result.
SortSlice(s) == { t \in Rearrangements(s) : IsOrdered(t) }

\* The body of the loop of GetQuotes after provider.GetQuote returned.
CollectFailFast(quotes, r) == IF r.tag = "err" THEN <<>> ELSE Append(quotes, r.quote)

Collect(quotes, r) == IF r.tag = "err" THEN quotes ELSE Append(quotes, r.quote)

\* The tail of GetBestQuote, after GetQuotes returned quotes with a nil error.
BestOfLast(quotes) ==
    IF Len(quotes) = 0 THEN Err(ErrNoQuotes) ELSE Ok(quotes[Len(quotes)])

BestOf(quotes) ==
    IF Len(quotes) = 0 THEN Err(ErrNoQuotes) ELSE Ok(quotes[1])

----------------------------------------------------------------------------
\* State

VARIABLES
    providers,      \* rh.providers: sequence of adapters [id, kind]
    status,         \* "idle", "loop", "inflight", "returned", "panicked"
    call,           \* the hub operation last started, with its arguments
    ctxCancelled,   \* the caller has cancelled the context of the call
    avail,          \* GetQuotes: the local slice providers
    idx,            \* GetQuotes: position of the range loop in avail
    quotes,         \* GetQuotes: the local slice quotes
    outcome,        \* per adapter id, how its GetQuote call of this run went
    quoteCalls,     \* per adapter id, the GetQuote calls started in this run
    invoked,        \* the SendMoney calls made by this run, in order
    retProviders,   \* result of GetAvailableProviders
    retQuotes,      \* list returned by GetQuotes
    retQuote,       \* quote returned by GetBestQuote
    retResp,        \* response returned by SendMoneyWithProvider
    retErr          \* error returned by the operation

runVars == <<avail, idx, quotes, outcome, quoteCalls, invoked>>
retVars == <<retProviders, retQuotes, retQuote, retResp, retErr>>
vars == <<providers, status, call, ctxCancelled, runVars, retVars>>

NoCall == [op |-> "none"]
Ids == 1..MaxProviders
NoOutcomes == [i \in Ids |-> "none"]
NoCalls == [i \in Ids |-> 0]

Init ==
    /\ providers = <<>>
    /\ status = "idle"
    /\ call = NoCall
    /\ ctxCancelled = FALSE
    /\ avail = <<>>
    /\ idx = 1
    /\ quotes = <<>>
    /\ outcome = NoOutcomes
    /\ quoteCalls = NoCalls
    /\ invoked = <<>>
    /\ retProviders = <<>>
    /\ retQuotes = <<>>
    /\ retQuote = NoQuote
    /\ retResp = NoResponse
    /\ retErr = NilErr

\* No call is running and the process is alive.
Quiet == status \in {"idle", "returned"}

\* A new operation starts from fresh locals and fresh results.
ClearRun ==
    /\ avail' = <<>>
    /\ idx' = 1
    /\ quotes' = <<>>
    /\ outcome' = NoOutcomes
    /\ quoteCalls' = NoCalls
    /\ invoked' = <<>>

\* The new adapter put in front of the registry.
PrependProvider(provs, provider) == <<provider>> \o provs

\* rh.providers = append(rh.providers, provider)
AppendProvider(provs, provider) == Append(provs, provider)

\* AddProvider(provider); every adapter added is a fresh instance, identified
\* by id.
AddProvider ==
    /\ Quiet
    /\ Len(providers) < MaxProviders
    /\ \E k \in Kinds :
         LET provider == [id |-> Len(providers) + 1, kind |-> k]
         IN /\ providers' = AppendProvider(providers, provider)
            /\ call' = [op |-> "AddProvider", provider |-> provider]
    /\ status' = "idle"
    /\ ctxCancelled' = FALSE
    /\ ClearRun
    /\ retProviders' = <<>>
    /\ retQuotes' = <<>>
    /\ retQuote' = NoQuote
    /\ retResp' = NoResponse
    /\ retErr' = NilErr

CallGetAvailableProviders ==
    /\ Quiet
    /\ \E co \in CountryPairs, cu \in CurrencyPairs :
         /\ call' = [op |-> "GetAvailableProviders",
                     fromCountry |-> co[1], toCountry |-> co[2],
                     fromCurrency |-> cu[1], toCurrency |-> cu[2]]
         /\ retProviders' = GetAvailableProviders(providers, co[1], co[2], cu[1], cu[2])
    /\ status' = "returned"
    /\ ctxCancelled' = FALSE
    /\ ClearRun
    /\ retQuotes' = <<>>
    /\ retQuote' = NoQuote
    /\ retResp' = NoResponse
    /\ retErr' = NilErr
    /\ UNCHANGED providers

\* Names a caller may route to: the adapters' names and one no adapter has.
ProviderNames == {"Wise", "Remitly", "WorldRemit", "WesternUnion"}

\* Only the Wise adapter makes a request in SendMoney and hands ctx to it;
\* only the other two read the clock.
SendReplies(providerName) ==
    IF providerName = "Wise" THEN WiseTransferReplies ELSE {NoReply}

SendContexts(providerName) ==
    IF providerName = "Wise" THEN BOOLEAN ELSE {FALSE}

SendTimes(providerName) ==
    IF providerName \in {"Remitly", "WorldRemit"} THEN Times ELSE {"1700000000"}

\* The requests of the send calls: all the pairs are alike to SendMoney.
SendRequests == { r \in Requests : r.FromCurrency = "USD" }

\* SendMoneyWithProvider(ctx, providerName, req), with ctx cancelled or not.
CallSendMoneyWithProvider ==
    /\ Quiet
    /\ \E providerName \in ProviderNames, req \in SendRequests :
         \E cancelled \in SendContexts(providerName),
            now \in SendTimes(providerName),
            reply \in SendReplies(providerName) :
           LET out == SendMoneyWithProvider(providers, providerName, req,
                                            cancelled, reply, now)
           IN /\ call' = [op |-> "SendMoneyWithProvider",
                          providerName |-> providerName, req |-> req]
              /\ ctxCancelled' = cancelled
              /\ invoked' = out.invoked
              /\ retResp' = out.r.resp
              /\ retErr' = out.r.err
              /\ status' = IF out.r.tag = "panic" THEN "panicked" ELSE "returned"
    /\ avail' = <<>>
    /\ idx' = 1
    /\ quotes' = <<>>
    /\ outcome' = NoOutcomes
    /\ quoteCalls' = NoCalls
    /\ retProviders' = <<>>
    /\ retQuotes' = <<>>
    /\ retQuote' = NoQuote
    /\ UNCHANGED providers

\* Only the Wise adapter makes a request in GetTransactionStatus and hands
\* ctx to it.
StatusReplies(p) == IF p.kind = "Wise" THEN WiseStatusReplies ELSE {NoStatusReply}

StatusContexts(p) == IF p.kind = "Wise" THEN BOOLEAN ELSE {FALSE}

\* The caller asks the adapter that has just accepted a transfer for the
\* status of the transaction id SendMoney returned. invoked keeps the
\* SendMoney call the id comes from.
CallGetTransactionStatus ==
    /\ status = "returned"
    /\ call.op = "SendMoneyWithProvider"
    /\ retErr = NilErr
    /\ Len(invoked) = 1
    /\ \E i \in 1..Len(providers) :
         /\ providers[i].id = invoked[1].id
         /\ \E cancelled \in StatusContexts(providers[i]),
               reply \in StatusReplies(providers[i]) :
              LET out == GetTransactionStatus(providers[i], retResp.TransactionID,
                                              cancelled, reply)
              IN /\ call' = [op |-> "GetTransactionStatus",
                             provider |-> providers[i],
                             transactionID |-> retResp.TransactionID]
                 /\ ctxCancelled' = cancelled
                 /\ retResp' = out.resp
                 /\ retErr' = out.err
                 /\ status' = IF out.tag = "panic" THEN "panicked" ELSE "returned"
    /\ UNCHANGED <<providers, runVars, retProviders, retQuotes, retQuote>>

\* GetQuotes up to the range loop: the eligible adapters, with the source
\* country fixed to "US", and an empty quotes slice. GetBestQuote starts by
\* calling GetQuotes with its own arguments.
StartGetQuotes ==
    /\ Quiet
    /\ \E op \in {"GetQuotes", "GetBestQuote"}, req \in Requests :
         /\ call' = [op |-> op, req |-> req]
         /\ avail' = GetAvailableProviders(providers, "US", req.CountryCode,
                                           req.FromCurrency, req.ToCurrency)
    /\ status' = "loop"
    /\ ctxCancelled' = FALSE
    /\ idx' = 1
    /\ quotes' = <<>>
    /\ outcome' = NoOutcomes
    /\ quoteCalls' = NoCalls
    /\ invoked' = <<>>
    /\ retProviders' = <<>>
    /\ retQuotes' = <<>>
    /\ retQuote' = NoQuote
    /\ retResp' = NoResponse
    /\ retErr' = NilErr
    /\ UNCHANGED providers

InGetQuotes == call.op \in {"GetQuotes", "GetBestQuote"}

\* The range loop has run over every element of providers.
LoopDone(i, list) == i > Len(list)

\* The caller cancels ctx while the call runs.
Cancel ==
    /\ status \in {"loop", "inflight"}
    /\ ~ctxCancelled
    /\ ctxCancelled' = TRUE
    /\ UNCHANGED <<providers, status, call, runVars, retVars>>

\* provider.GetQuote(ctx, req) is entered for the next element of providers.
DispatchGetQuote ==
    /\ status = "loop"
    /\ InGetQuotes
    /\ ~LoopDone(idx, avail)
    /\ status' = "inflight"
    /\ outcome' = [outcome EXCEPT ![avail[idx].id] = "inflight"]
    /\ quoteCalls' = [quoteCalls EXCEPT ![avail[idx].id] = @ + 1]
    /\ UNCHANGED <<providers, call, ctxCancelled, avail, idx, quotes, invoked,
                   retVars>>

\* provider.GetQuote comes back: an error is logged and skipped, a quote is
\* appended, a panic unwinds GetQuotes and its callers.
AnswerGetQuote ==
    /\ status = "inflight"
    /\ InGetQuotes
    /\ \E reply \in Replies(avail[idx]) :
         LET r == GetQuote(avail[idx], call.req, ctxCancelled, reply)
         IN /\ outcome' = [outcome EXCEPT ![avail[idx].id] = r.tag]
            /\ IF r.tag = "panic"
               THEN /\ status' = "panicked"
                    /\ UNCHANGED <<quotes, idx>>
               ELSE /\ status' = "loop"
                    /\ quotes' = Collect(quotes, r)
                    /\ idx' = idx + 1
    /\ UNCHANGED <<providers, call, ctxCancelled, avail, quoteCalls, invoked,
                   retVars>>

\* GetQuotes returning what it has collected without waiting for the call in
\* flight or for the end of the loop.
ReturnGetQuotesNoJoin ==
    /\ status \in {"loop", "inflight"}
    /\ call.op = "GetQuotes"
    /\ \E sorted \in SortSlice(quotes) : retQuotes' = sorted
    /\ retErr' = NilErr
    /\ status' = "returned"
    /\ UNCHANGED <<providers, call, ctxCancelled, runVars, retProviders,
                   retQuote, retResp>>

\* After the loop GetQuotes sorts quotes and returns them with a nil error.
ReturnGetQuotes ==
    /\ status = "loop"
    /\ call.op = "GetQuotes"
    /\ LoopDone(idx, avail)
    /\ \E sorted \in SortSlice(quotes) : retQuotes' = sorted
    /\ retErr' = NilErr
    /\ status' = "returned"
    /\ UNCHANGED <<providers, call, ctxCancelled, runVars, retProviders,
                   retQuote, retResp>>

\* The same return inside GetBestQuote, which then picks the first quote.
\* retQuotes keeps the list GetQuotes handed to GetBestQuote.
ReturnGetBestQuote ==
    /\ status = "loop"
    /\ call.op = "GetBestQuote"
    /\ LoopDone(idx, avail)
    /\ \E sorted \in SortSlice(quotes) :
         /\ retQuotes' = sorted
         /\ retQuote' = BestOf(sorted).quote
         /\ retErr' = BestOf(sorted).err
    /\ status' = "returned"
    /\ UNCHANGED <<providers, call, ctxCancelled, runVars, retProviders, retResp>>

Next ==
    \/ AddProvider
    \/ CallGetAvailableProviders
    \/ CallSendMoneyWithProvider
    \/ CallGetTransactionStatus
    \/ StartGetQuotes
    \/ Cancel
    \/ DispatchGetQuote
    \/ AnswerGetQuote
    \/ ReturnGetQuotes
    \/ ReturnGetBestQuote

Spec == Init /\ [][Next]_vars

----------------------------------------------------------------------------
\* Wallet service

\* The registry NewWalletRemittanceService builds: Wise, Remitly and
\* WorldRemit, added in this order to a new hub.
NewWalletRemittanceService ==
    <<[id |-> 1, kind |-> "Wise"], [id |-> 2, kind |-> "Remitly"],
      [id |-> 3, kind |-> "WorldRemit"]>>

\* The request main builds: 1000.00 USD to PHP for a recipient in "PH".
MainRequest ==
    [Amount |-> 100000, FromCurrency |-> "USD", ToCurrency |-> "PHP",
     CountryCode |-> "PH", Reference |-> "REF-001"]

----------------------------------------------------------------------------
\* Properties

Range(s) == { s[i] : i \in 1..Len(s) }

\* Eligibility as the specification words it: at least one of the two
\* currencies and at least one of the two countries are supported.
EligibleFor(p, fromCountry, toCountry, fromCurrency, toCurrency) ==
    /\ Range(GetSupportedCurrencies(p)) \cap {fromCurrency, toCurrency} # {}
    /\ Range(GetSupportedCountries(p)) \cap {fromCountry, toCountry} # {}

EligibleForRequest(p, req) ==
    EligibleFor(p, "US", req.CountryCode, req.FromCurrency, req.ToCurrency)

QuotesOf(list, id) == { i \in 1..Len(list) : list[i].src = id }

GetQuotesReturned == status = "returned" /\ call.op = "GetQuotes"

\* C1: when GetQuotes returns, its error is nil and its list holds exactly one
\* quote for every eligible adapter whose GetQuote succeeded and none for an
\* adapter that failed or was not eligible; every eligible adapter was asked
\* once and no other adapter was asked.
C1_PartialFailureTolerated ==
    GetQuotesReturned =>
        /\ retErr = NilErr
        /\ \A i \in 1..Len(retQuotes) : \E p \in Range(providers) : retQuotes[i].src = p.id
        /\ \A p \in Range(providers) :
             /\ quoteCalls[p.id] = IF EligibleForRequest(p, call.req) THEN 1 ELSE 0
             /\ outcome[p.id] \in {"ok", "err"} <=> EligibleForRequest(p, call.req)
             /\ Cardinality(QuotesOf(retQuotes, p.id)) =
                  IF EligibleForRequest(p, call.req) /\ outcome[p.id] = "ok" THEN 1 ELSE 0

\* A run where one adapter failed, one succeeded and one was not eligible.
C1_Witness ==
    /\ GetQuotesReturned
    /\ \E p, q, r \in Range(providers) :
         /\ outcome[p.id] = "err"
         /\ outcome[q.id] = "ok"
         /\ ~EligibleForRequest(r, call.req)
    /\ Len(retQuotes) = 1

\* C2: the list GetQuotes returns is sorted non-decreasingly by TotalCost.
C2_SortedByTotalCost ==
    GetQuotesReturned =>
        \A i \in 1..(Len(retQuotes) - 1) :
            retQuotes[i].TotalCost <= retQuotes[i + 1].TotalCost

\* A run whose quotes were collected out of order, so that the sort moved them.
C2_Witness ==
    /\ GetQuotesReturned
    /\ Len(quotes) = 3
    /\ quotes[1].TotalCost > quotes[2].TotalCost
    /\ quotes[2].TotalCost > quotes[3].TotalCost

\* C3: quotes of equal TotalCost keep the registration order of their
\* adapters in the list GetQuotes returns.
C3_TiesKeepRegistrationOrder ==
    GetQuotesReturned =>
        \A i, j \in 1..Len(retQuotes) :
            (i < j /\ retQuotes[i].TotalCost = retQuotes[j].TotalCost)
                => retQuotes[i].src < retQuotes[j].src

GetBestQuoteReturned == status = "returned" /\ call.op = "GetBestQuote"

\* C4: GetBestQuote returns the first element of the list GetQuotes gave it,
\* a quote of minimal TotalCost among the quotes collected, with a nil error;
\* when that list is empty it returns no quote and "no quotes available",
\* which is no adapter error and no "provider not found" error.
C4_BestQuoteIsFirst ==
    GetBestQuoteReturned =>
        /\ Len(retQuotes) = Len(quotes)
        /\ Len(quotes) > 0 =>
             /\ retErr = NilErr
             /\ retQuote = retQuotes[1]
             /\ retQuote \in Range(quotes)
             /\ \A q \in Range(quotes) : retQuote.TotalCost <= q.TotalCost
        /\ Len(quotes) = 0 =>
             /\ retQuote = NoQuote
             /\ retErr = "no quotes available"
             /\ retErr # NilErr
             /\ retErr \notin AdapterErrors
             /\ \A n \in ProviderNames : retErr # ErrProviderNotFound(n)

\* A run where the first quote collected is not the cheapest, so that the
\* best quote is not the first answer.
C4_Witness ==
    /\ GetBestQuoteReturned
    /\ Len(quotes) >= 2
    /\ \E i \in 2..Len(quotes) : quotes[i].TotalCost < quotes[1].TotalCost
    /\ retQuote # quotes[1]

SendReturned ==
    call.op = "SendMoneyWithProvider" /\ status \in {"returned", "panicked"}

Registered(providerName) == \E p \in Range(providers) : GetName(p) = providerName

\* C5: SendMoneyWithProvider with a name no registered adapter has returns a
\* nil response and the "provider ... not found" error and calls no adapter's
\* SendMoney.
C5_UnknownProviderNotFound ==
    (SendReturned /\ ~Registered(call.providerName)) =>
        /\ status = "returned"
        /\ retResp = NoResponse
        /\ retErr = "provider " \o call.providerName \o " not found"
        /\ invoked = <<>>

\* An unknown name routed through a registry that holds adapters.
C5_Witness ==
    /\ SendReturned
    /\ ~Registered(call.providerName)
    /\ Len(providers) >= 2

\* C6: SendMoneyWithProvider with a registered name calls SendMoney once, on
\* the first adapter of that name, with the caller's request, and returns
\* what that call returned; no other adapter is called, also when the call
\* failed.
C6_NamedProviderOnly ==
    (SendReturned /\ Registered(call.providerName)) =>
        /\ Len(invoked) = 1
        /\ \E i \in 1..Len(providers) :
             /\ providers[i].id = invoked[1].id
             /\ GetName(providers[i]) = call.providerName
             /\ \A j \in 1..(i - 1) : GetName(providers[j]) # call.providerName
        /\ invoked[1].req = call.req
        /\ status = "returned" =>
             /\ invoked[1].r.tag \in {"ok", "err"}
             /\ retResp = invoked[1].r.resp
             /\ retErr = invoked[1].r.err
        /\ status = "panicked" => invoked[1].r.tag = "panic"

\* The named adapter failed while an adapter that would have succeeded is
\* registered.
C6_Witness ==
    /\ SendReturned
    /\ status = "returned"
    /\ Len(invoked) = 1
    /\ invoked[1].r.tag = "err"
    /\ retErr \in AdapterErrors
    /\ \E p \in Range(providers) : p.kind = "Remitly"

GetAvailableProvidersReturned ==
    status = "returned" /\ call.op = "GetAvailableProviders"

CallEligible(p) ==
    EligibleFor(p, call.fromCountry, call.toCountry, call.fromCurrency,
                call.toCurrency)

\* C7: GetAvailableProviders returns the registered adapters that support at
\* least one of the two currencies and at least one of the two countries,
\* each once and in registration order, and no other adapter.
C7_EligibilityFilter ==
    GetAvailableProvidersReturned =>
        retProviders = SelectSeq(providers, CallEligible)

\* An adapter that supports only one currency and only one country of the
\* corridor is returned while an adapter that supports no country of it is
\* left out.
C7_Witness ==
    /\ GetAvailableProvidersReturned
    /\ \E p \in Range(retProviders) :
         /\ Cardinality(Range(GetSupportedCurrencies(p))
                          \cap {call.fromCurrency, call.toCurrency}) = 1
         /\ Cardinality(Range(GetSupportedCountries(p))
                          \cap {call.fromCountry, call.toCountry}) = 1
    /\ \E q \in Range(providers) :
         /\ q \notin Range(retProviders)
         /\ Range(GetSupportedCurrencies(q))
              \cap {call.fromCurrency, call.toCurrency} # {}

Running == status \in {"loop", "inflight"}

\* C8: once the caller's context is cancelled GetQuotes starts no further
\* adapter GetQuote call.
C8_NoDispatchAfterCancel ==
    [][(Running /\ ctxCancelled) => quoteCalls' = quoteCalls]_vars

\* C9: every GetQuote call ends with a quote or an error and never panics,
\* so that GetQuotes is never aborted by an adapter.
C9_GetQuoteNeverPanics ==
    /\ \A i \in Ids : outcome[i] # "panic"
    /\ InGetQuotes => status # "panicked"

\* C10: when GetQuotes returns its list, every eligible adapter has been
\* asked once, every call it started has come back with a quote or an error,
\* and no call is outstanding.
C10_JoinBarrier ==
    GetQuotesReturned =>
        /\ \A i \in Ids : quoteCalls[i] > 0 => outcome[i] \in {"ok", "err"}
        /\ \A i \in Ids : outcome[i] # "inflight"
        /\ \A p \in Range(avail) : quoteCalls[p.id] = 1
        /\ Len(retQuotes) = Cardinality({ i \in Ids : outcome[i] = "ok" })

\* A return after three calls, one of which failed.
C10_Witness ==
    /\ GetQuotesReturned
    /\ Len(avail) = 3
    /\ \E i \in Ids : outcome[i] = "err"
    /\ Len(retQuotes) = 2

\* GetRemittanceOptions and GetBestOption hand their arguments to GetQuotes
\* and GetBestQuote of the hub and return what these return.
ServiceReturned ==
    /\ providers = NewWalletRemittanceService
    /\ status = "returned"
    /\ InGetQuotes
    /\ call.req = MainRequest

\* The Wise API answered the quote request with fee 15.00.
WiseQuotedFifteen == \E q \in Range(quotes) : q.src = 1 /\ q.Fee = 1500

CostLine(q) == <<q.Provider, q.Fee, q.TotalCost>>

\* C11: for the wallet service (Wise, Remitly, WorldRemit) and the request
\* USD->PHP, 1000.00, recipient in "PH", all three adapters are eligible; with
\* Wise quoting fee 15.00 the options are WorldRemit (1005.99), then the
\* 15.00-fee quote (1015.00), then the 20.00-fee quote (1020.00), and
\* GetBestOption returns the WorldRemit quote.
C11_DemoRanking ==
    ServiceReturned =>
        /\ avail = providers
        /\ WiseQuotedFifteen =>
             /\ Len(retQuotes) = 3
             /\ CostLine(retQuotes[1]) = <<"WorldRemit", 599, 100599>>
             /\ CostLine(retQuotes[2]) = <<"Wise", 1500, 101500>>
             /\ CostLine(retQuotes[3]) = <<"Remitly", 2000, 102000>>
             /\ call.op = "GetBestQuote" =>
                  /\ retErr = NilErr
                  /\ retQuote.src = 3
                  /\ CostLine(retQuote) = <<"WorldRemit", 599, 100599>>

\* GetBestOption has returned for the demo request with all three quotes in.
C11_Witness ==
    /\ ServiceReturned
    /\ WiseQuotedFifteen
    /\ call.op = "GetBestQuote"
    /\ Len(retQuotes) = 3
    /\ retQuote.Provider = "WorldRemit"

StatusReturned == call.op = "GetTransactionStatus" /\ status = "returned"

C13_RegistryAppendOnly ==
    [][IF call'.op = "AddProvider"
       THEN /\ Len(providers') = Len(providers) + 1
            /\ providers'[Len(providers')] = call'.provider
            /\ \A i \in 1..Len(providers) : providers'[i] = providers[i]
       ELSE providers' = providers]_vars

\* A send to an unknown provider has failed on a registry of three adapters,
\* which still stand in the order they were added in.
C13_Witness ==
    /\ Len(providers) = 3
    /\ \A i \in 1..3 : providers[i].id = i
    /\ call.op = "SendMoneyWithProvider"
    /\ status = "returned"
    /\ retErr = ErrProviderNotFound("WesternUnion")

====
